---- MODULE Spec2Model ----
(***************************************************************************)
(* Model of src/main.py: Commit, ConcreteBranch and ConcreteRepository.    *)
(*                                                                         *)
(* Python objects live in heaps indexed by allocation order: commitObjs    *)
(* (Commit instances), lists (the list objects bound to Branch.commits)    *)
(* and branchObjs (ConcreteBranch instances).  A reference is the index of *)
(* the object, so identity comparison (Commit defines no __eq__) is index  *)
(* equality.  `outcome` tells how the latest call ended: a normal return,  *)
(* or the class of the exception it raised and the method the caller had   *)
(* called.                                                                 *)
(***************************************************************************)
EXTENDS Integers, Sequences, FiniteSets, TLC

VARIABLES commitObjs, lists, branchObjs, repo, outcome, ghost

vars == <<commitObjs, lists, branchObjs, repo, outcome, ghost>>

\* ------------------------------------------------------------------ bounds
MaxCommits == 2
MaxBranches == 2
MaxCalls == 4
MaxHistory == 2
MaxRepoCommits == 1

\* ------------------------------------------------------------------ inputs
CommitNames == {"c1"}
Descriptions == {"d"}
FileLists == {<<"a.py">>, <<"b.py">>}
BranchNames == {"main", "feature"}
\* instants of the local wall clock
Times == {1, 2}

\* None, for an omitted last_commit (commit references are 1..Len(commitObjs))
NoCommit == 0
\* None, for an omitted base_branch_name; `if base_branch_name:` takes the
\* same path for None and for the empty string
NoName == ""

\* ------------------------------------------------------------------ helpers
\* the call returned
Ok == [raised |-> "None", by |-> "None"]

\* the call `by` ended in the exception `raised`
Raised(raised, by) == [raised |-> raised, by |-> by]

Last(s) == s[Len(s)]

Front(s) == SubSeq(s, 1, Len(s) - 1)

Elems(s) == {s[i] : i \in 1..Len(s)}

\* list.index(x): the 0-based position of the first element equal to x, or
\* -1 where Python raises ValueError
PyIndex(s, x) ==
    IF \E i \in 1..Len(s) : s[i] = x
    THEN (CHOOSE i \in 1..Len(s) : s[i] = x /\ \A j \in 1..(i - 1) : s[j] # x) - 1
    ELSE -1

\* faulty list.remove: the commit stays in the list
PyRemove_keeps(s, x) == s

\* faulty list.remove: drops the oldest commit instead of x
PyRemove_head(s, x) == Tail(s)

\* list.remove(x): the list without the first element equal to x (the caller
\* checks PyIndex first, Python raises ValueError when x is absent)
PyRemove(s, x) ==
    SubSeq(s, 1, PyIndex(s, x)) \o SubSeq(s, PyIndex(s, x) + 2, Len(s))

\* Commit.__init__: created_at is datetime.now(), passed in as `now`
Commit(name, description, files_list, now) ==
    [name |-> name, description |-> description,
     created_at |-> now, files_list |-> files_list]

\* ConcreteBranch.__init__: `commits` is a reference into `lists`
ConcreteBranch(name, commitsRef) ==
    [name |-> name, commits |-> commitsRef,
     undo_history |-> <<>>, redo_history |-> <<>>]

\* ConcreteBranch.get_commits_list
get_commits_list(b) == lists[branchObjs[b].commits]

\* History of a branch object, kept beside it for stating properties: the
\* commits it was created with, the branch and last_commit argument of the
\* clone call that made it (0 when the constructor did), and the calls that
\* changed it since, each with the commit it moved.  A call that returns at
\* once because its log is empty is not recorded.
Born(created_with, cloned_from, last_commit) ==
    [created_with |-> created_with, cloned_from |-> cloned_from,
     last_commit |-> last_commit, calls |-> <<>>]

\* state-changing calls made on all branches so far
TotalCalls == LET RECURSIVE Sum(_)
                  Sum(n) == IF n = 0 THEN 0 ELSE Len(ghost[n].calls) + Sum(n - 1)
              IN Sum(Len(ghost))

\* ------------------------------------------------------------------ Init
\* ConcreteRepository.__init__
ConcreteRepository(name) ==
    [name |-> name, branches |-> [n \in {} |-> 0],
     history |-> <<>>, redo_history |-> <<>>]

Init ==
    /\ commitObjs = <<>>
    /\ lists = <<>>
    /\ branchObjs = <<>>
    /\ repo = ConcreteRepository("repo")
    /\ outcome = Ok
    /\ ghost = <<>>

\* ------------------------------------------------------------------ Branch
\* the caller constructs ConcreteBranch(name)
NewBranch(name) ==
    /\ Len(branchObjs) < MaxBranches
    /\ lists' = Append(lists, <<>>)
    /\ branchObjs' = Append(branchObjs, ConcreteBranch(name, Len(lists) + 1))
    /\ ghost' = Append(ghost, Born(<<>>, 0, NoCommit))
    /\ outcome' = Ok
    /\ UNCHANGED <<commitObjs, repo>>

\* the heaps an operation of Branch reads and writes
Heap == [commitObjs |-> commitObjs, lists |-> lists,
         branchObjs |-> branchObjs, ghost |-> ghost]

SetHeap(h) ==
    /\ commitObjs' = h.commitObjs
    /\ lists' = h.lists
    /\ branchObjs' = h.branchObjs
    /\ ghost' = h.ghost

\* faulty add_commit: drops the redo log
add_commit_clears_redo(h, b, name, description, file_list, now) ==
    LET new_commit == Len(h.commitObjs) + 1 IN
    [commitObjs |-> Append(h.commitObjs, Commit(name, description, file_list, now)),
     lists |-> [h.lists EXCEPT ![h.branchObjs[b].commits] = Append(@, new_commit)],
     branchObjs |-> [h.branchObjs EXCEPT
                        ![b].undo_history = Append(@, <<"add_commit", new_commit>>),
                        ![b].redo_history = <<>>],
     ghost |-> [h.ghost EXCEPT ![b].calls = Append(@, <<"add_commit", new_commit>>)]]

\* ConcreteBranch.add_commit, on heap h; `now` is what datetime.now() returns
add_commit(h, b, name, description, file_list, now) ==
    LET new_commit == Len(h.commitObjs) + 1 IN
    [commitObjs |-> Append(h.commitObjs, Commit(name, description, file_list, now)),
     lists |-> [h.lists EXCEPT ![h.branchObjs[b].commits] = Append(@, new_commit)],
     branchObjs |-> [h.branchObjs EXCEPT
                        ![b].undo_history = Append(@, <<"add_commit", new_commit>>)],
     ghost |-> [h.ghost EXCEPT ![b].calls = Append(@, <<"add_commit", new_commit>>)]]

\* datetime.now(): the values a reading can return. It is the local wall
\* clock, so a reading can be earlier than, equal to or later than any reading
\* made before it
Now == Times

\* the values n readings in a row can return, in order
Readings(n) == [1..n -> Now]

AddCommit(b, name, description, file_list) ==
    /\ Len(commitObjs) < MaxCommits
    /\ TotalCalls < MaxCalls
    /\ \E now \in Now :
          SetHeap(add_commit(Heap, b, name, description, file_list, now))
    /\ outcome' = Ok
    /\ UNCHANGED repo

\* faulty slice: stops before last_commit
clone_commits_exclusive(h, self, last_commit) ==
    LET commits == h.lists[h.branchObjs[self].commits] IN
    IF last_commit # NoCommit
    THEN SubSeq(commits, 1, PyIndex(commits, last_commit))
    ELSE commits

\* the slice ConcreteBranch.clone takes of self.commits
clone_commits(h, self, last_commit) ==
    LET commits == h.lists[h.branchObjs[self].commits] IN
    IF last_commit # NoCommit
    THEN SubSeq(commits, 1, PyIndex(commits, last_commit) + 1)
    ELSE commits

\* faulty lookup: a missing commit goes unnoticed
clone_raises_never(h, self, last_commit) == FALSE

\* self.commits.index(last_commit) raises ValueError
clone_raises(h, self, last_commit) ==
    /\ last_commit # NoCommit
    /\ PyIndex(h.lists[h.branchObjs[self].commits], last_commit) < 0

\* faulty clone: the source's logs are copied along with its commits
clone_copies_logs(h, self, last_commit) ==
    [h EXCEPT
       !.lists = Append(@, clone_commits(h, self, last_commit)),
       !.branchObjs = Append(@, [ConcreteBranch(h.branchObjs[self].name,
                                                Len(h.lists) + 1) EXCEPT
                                   !.undo_history = h.branchObjs[self].undo_history,
                                   !.redo_history = h.branchObjs[self].redo_history]),
       !.ghost = Append(@, Born(clone_commits(h, self, last_commit),
                                self, last_commit))]

\* faulty clone: binds the source's own list object (self.commits without [:])
clone_shares_list(h, self, last_commit) ==
    [h EXCEPT
       !.branchObjs = Append(@, ConcreteBranch(h.branchObjs[self].name,
                                               h.branchObjs[self].commits)),
       !.ghost = Append(@, Born(clone_commits(h, self, last_commit),
                                self, last_commit))]

\* ConcreteBranch.clone when it returns: the heap with cloned_branch allocated
\* last; the slice is a new list object and the logs are those of __init__
clone(h, self, last_commit) ==
    [h EXCEPT
       !.lists = Append(@, clone_commits(h, self, last_commit)),
       !.branchObjs = Append(@, ConcreteBranch(h.branchObjs[self].name,
                                               Len(h.lists) + 1)),
       !.ghost = Append(@, Born(clone_commits(h, self, last_commit),
                                self, last_commit))]

\* ConcreteBranch.clone called by the caller, who keeps the returned branch
Clone(b, last_commit) ==
    /\ IF clone_raises(Heap, b, last_commit)
       THEN /\ outcome' = Raised("ValueError", "clone")
            /\ UNCHANGED <<commitObjs, lists, branchObjs, ghost>>
       ELSE /\ Len(branchObjs) < MaxBranches
            /\ SetHeap(clone(Heap, b, last_commit))
            /\ outcome' = Ok
    /\ UNCHANGED repo

\* attribute lookup on a Commit instance: it has the attributes __init__ set
HasAttr(h, commit, attr) == attr \in DOMAIN h.commitObjs[commit]

\* the for loop of ConcreteBranch.join from position i of self.commits on: the
\* arguments of add_commit are evaluated first, and reading commit.file_list
\* raises AttributeError because Commit stores its files as files_list.
\* nows[i] is what datetime.now() returns for the i-th Commit built
RECURSIVE join(_, _, _, _, _)
join(h, self, where_to_move_commits, i, nows) ==
    IF i > Len(h.lists[h.branchObjs[self].commits])
    THEN [heap |-> h, outcome |-> Ok]
    ELSE LET commit == h.lists[h.branchObjs[self].commits][i] IN
         IF ~HasAttr(h, commit, "file_list")
         THEN [heap |-> h, outcome |-> Raised("AttributeError", "join")]
         ELSE join(add_commit(h, where_to_move_commits, h.commitObjs[commit].name,
                              h.commitObjs[commit].description,
                              h.commitObjs[commit].file_list, nows[i]),
                   self, where_to_move_commits, i + 1, nows)

\* the Commits join builds: one for each commit of self.commits before the
\* first whose file_list cannot be read
RECURSIVE Built(_, _, _)
Built(h, self, i) ==
    IF i > Len(h.lists[h.branchObjs[self].commits])
          \/ ~HasAttr(h, h.lists[h.branchObjs[self].commits][i], "file_list")
    THEN 0
    ELSE 1 + Built(h, self, i + 1)

\* ConcreteBranch.join
Join(self, where_to_move_commits) ==
    \E nows \in Readings(Built(Heap, self, 1)) :
       LET result == join(Heap, self, where_to_move_commits, 1, nows) IN
       /\ Len(result.heap.commitObjs) <= MaxCommits
       /\ SetHeap(result.heap)
       /\ outcome' = result.outcome
       /\ UNCHANGED repo

\* ConcreteBranch.undo: the entry is popped before commits.remove, which raises
\* ValueError when the commit is not in the list
BranchUndo(b) ==
    /\ IF branchObjs[b].undo_history # <<>>
       THEN LET last_operation == Last(branchObjs[b].undo_history)
                commit == last_operation[2]
                popped == [branchObjs EXCEPT ![b].undo_history = Front(@)]
            IN /\ TotalCalls < MaxCalls
               /\ ghost' = [ghost EXCEPT ![b].calls = Append(@, <<"undo", commit>>)]
               /\ IF last_operation[1] = "add_commit"
                  THEN IF PyIndex(get_commits_list(b), commit) >= 0
                       THEN /\ lists' = [lists EXCEPT ![branchObjs[b].commits] =
                                            PyRemove(@, commit)]
                            /\ branchObjs' = [popped EXCEPT ![b].redo_history =
                                                Append(@, <<"add_commit", commit>>)]
                            /\ outcome' = Ok
                       ELSE /\ branchObjs' = popped
                            /\ outcome' = Raised("ValueError", "Branch.undo")
                            /\ UNCHANGED lists
                  ELSE /\ branchObjs' = popped
                       /\ outcome' = Ok
                       /\ UNCHANGED lists
       ELSE /\ outcome' = Ok
            /\ UNCHANGED <<lists, branchObjs, ghost>>
    /\ UNCHANGED <<commitObjs, repo>>

\* ConcreteBranch.redo
BranchRedo(b) ==
    /\ IF branchObjs[b].redo_history # <<>>
       THEN LET last_operation == Last(branchObjs[b].redo_history)
                commit == last_operation[2]
                popped == [branchObjs EXCEPT ![b].redo_history = Front(@)]
            IN /\ TotalCalls < MaxCalls
               /\ ghost' = [ghost EXCEPT ![b].calls = Append(@, <<"redo", commit>>)]
               /\ IF last_operation[1] = "add_commit"
                  THEN /\ lists' = [lists EXCEPT ![branchObjs[b].commits] =
                                       Append(@, commit)]
                       /\ branchObjs' = [popped EXCEPT ![b].undo_history =
                                           Append(@, <<"add_commit", commit>>)]
                  ELSE /\ branchObjs' = popped
                       /\ UNCHANGED lists
       ELSE UNCHANGED <<lists, branchObjs, ghost>>
    /\ outcome' = Ok
    /\ UNCHANGED <<commitObjs, repo>>

\* ------------------------------------------------------------------ Repository
\* d[k] = v on a dict
DictSet(d, k, v) == [n \in DOMAIN d \cup {k} |-> IF n = k THEN v ELSE d[n]]

\* del d[k] on a dict that has the key k
DictDel(d, k) == [n \in DOMAIN d \ {k} |-> d[n]]

\* faulty rename: the clone keeps the name clone() gave it
rename_forgotten(h, new_name) == h

\* cloned_branch.name = new_name, on the branch allocated last in h
rename(h, new_name) ==
    [h EXCEPT !.branchObjs[Len(h.branchObjs)].name = new_name]

\* room for one more entry in the repository's two logs together
LogRoom == Len(repo.history) + Len(repo.redo_history) < MaxHistory

\* ConcreteRepository.create_branch
CreateBranch(new_branch_name, base_branch_name, last_commit) ==
    /\ IF base_branch_name # NoName
       THEN IF base_branch_name \in DOMAIN repo.branches
            THEN LET base_branch == repo.branches[base_branch_name] IN
                 IF clone_raises(Heap, base_branch, last_commit)
                 THEN /\ outcome' = Raised("ValueError", "create_branch")
                      /\ UNCHANGED <<commitObjs, lists, branchObjs, ghost, repo>>
                 ELSE /\ Len(branchObjs) < MaxBranches
                      /\ LogRoom
                      /\ SetHeap(rename(clone(Heap, base_branch, last_commit),
                                        new_branch_name))
                      /\ repo' = [repo EXCEPT
                            !.branches = DictSet(@, new_branch_name, Len(branchObjs) + 1),
                            !.history = Append(@, <<"create_branch", new_branch_name>>)]
                      /\ outcome' = Ok
            ELSE /\ outcome' = Ok
                 /\ UNCHANGED <<commitObjs, lists, branchObjs, ghost, repo>>
       ELSE /\ Len(branchObjs) < MaxBranches
            /\ LogRoom
            /\ lists' = Append(lists, <<>>)
            /\ branchObjs' = Append(branchObjs,
                                    ConcreteBranch(new_branch_name, Len(lists) + 1))
            /\ ghost' = Append(ghost, Born(<<>>, 0, NoCommit))
            /\ repo' = [repo EXCEPT
                  !.branches = DictSet(@, new_branch_name, Len(branchObjs) + 1),
                  !.history = Append(@, <<"create_branch", new_branch_name>>)]
            /\ outcome' = Ok
            /\ UNCHANGED commitObjs

\* faulty remove_branch: `del` without the membership test
RemoveBranch_unguarded(name) ==
    /\ IF name \in DOMAIN repo.branches
       THEN /\ LogRoom
            /\ repo' = [repo EXCEPT !.branches = DictDel(@, name),
                                    !.history = Append(@, <<"remove_branch", name>>)]
            /\ outcome' = Ok
       ELSE /\ outcome' = Raised("KeyError", "remove_branch")
            /\ UNCHANGED repo
    /\ UNCHANGED <<commitObjs, lists, branchObjs, ghost>>

\* ConcreteRepository.remove_branch
RemoveBranch(name) ==
    /\ IF name \in DOMAIN repo.branches
       THEN /\ LogRoom
            /\ repo' = [repo EXCEPT !.branches = DictDel(@, name),
                                    !.history = Append(@, <<"remove_branch", name>>)]
       ELSE UNCHANGED repo
    /\ outcome' = Ok
    /\ UNCHANGED <<commitObjs, lists, branchObjs, ghost>>

\* ConcreteRepository.clone_branch
CloneBranch(name, new_name, last_commit) ==
    /\ IF name \in DOMAIN repo.branches
       THEN IF clone_raises(Heap, repo.branches[name], last_commit)
            THEN /\ outcome' = Raised("ValueError", "clone_branch")
                 /\ UNCHANGED <<commitObjs, lists, branchObjs, ghost, repo>>
            ELSE /\ Len(branchObjs) < MaxBranches
                 /\ LogRoom
                 /\ SetHeap(rename(clone(Heap, repo.branches[name], last_commit),
                                   new_name))
                 /\ repo' = [repo EXCEPT
                       !.branches = DictSet(@, new_name, Len(branchObjs) + 1),
                       !.history = Append(@, <<"clone_branch", name, new_name>>)]
                 /\ outcome' = Ok
       ELSE /\ outcome' = Ok
            /\ UNCHANGED <<commitObjs, lists, branchObjs, ghost, repo>>

\* ConcreteRepository.add_branch, with a branch object the caller holds
AddBranch(new_branch) ==
    /\ LogRoom
    /\ repo' = [repo EXCEPT
          !.branches = DictSet(@, branchObjs[new_branch].name, new_branch),
          !.history = Append(@, <<"add_branch", branchObjs[new_branch].name>>)]
    /\ outcome' = Ok
    /\ UNCHANGED <<commitObjs, lists, branchObjs, ghost>>

\* faulty dispatch: undo also reverts create_branch
undo_kinds_with_create == {"create_branch", "remove_branch", "clone_branch", "add_branch"}

\* the operation names ConcreteRepository.undo dispatches on
undo_kinds == {"remove_branch", "clone_branch", "add_branch"}

\* faulty unpacking: undo of clone_branch picks the clone's name
undo_target_clone(last_operation) ==
    IF last_operation[1] = "clone_branch" THEN last_operation[3] ELSE last_operation[2]

\* the key ConcreteRepository.undo deletes: last_operation[1] for remove_branch
\* and add_branch, the second field of (kind, name, new_name) for clone_branch
undo_target(last_operation) == last_operation[2]

\* ConcreteRepository.undo on repository r: the entry is popped before the
\* dispatch, so a KeyError raised by `del` leaves the log one entry shorter
repo_undo(r) ==
    IF r.history # <<>>
    THEN LET last_operation == Last(r.history)
             operation_name == last_operation[1]
             popped == [r EXCEPT !.history = Front(@)]
             branch_name == undo_target(last_operation)
         IN IF operation_name \in undo_kinds
            THEN IF branch_name \in DOMAIN r.branches
                 THEN [repo |-> [popped EXCEPT
                                   !.branches = DictDel(@, branch_name),
                                   !.redo_history = Append(@, last_operation)],
                       outcome |-> Ok]
                 ELSE [repo |-> popped,
                       outcome |-> Raised("KeyError", "Repository.undo")]
            ELSE [repo |-> popped, outcome |-> Ok]
    ELSE [repo |-> r, outcome |-> Ok]

RepoUndo ==
    /\ repo' = repo_undo(repo).repo
    /\ outcome' = repo_undo(repo).outcome
    /\ UNCHANGED <<commitObjs, lists, branchObjs, ghost>>

\* faulty redo: the clone_branch entry is not put back on history
redo_clone_entry_lost(popped, last_operation) ==
    [repo |-> popped, outcome |-> Ok]

\* the clone_branch case of ConcreteRepository.redo
redo_clone_entry(popped, last_operation) ==
    [repo |-> [popped EXCEPT !.history = Append(@, last_operation)],
     outcome |-> Ok]

\* ConcreteRepository.redo on repository r: the entry is popped before the
\* dispatch
repo_redo(r) ==
    IF r.redo_history # <<>>
    THEN LET last_operation == Last(r.redo_history)
             operation_name == last_operation[1]
             popped == [r EXCEPT !.redo_history = Front(@)]
         IN CASE operation_name = "remove_branch" ->
                   IF last_operation[2] \in DOMAIN r.branches
                   THEN [repo |-> [popped EXCEPT
                                     !.branches = DictDel(@, last_operation[2]),
                                     !.history = Append(@, last_operation)],
                         outcome |-> Ok]
                   ELSE [repo |-> popped,
                         outcome |-> Raised("KeyError", "Repository.redo")]
              [] operation_name = "clone_branch" ->
                   redo_clone_entry(popped, last_operation)
              [] operation_name = "add_branch" ->
                   \* last_operation[2] of the pair (kind, name) add_branch logged
                   IF Len(last_operation) >= 3
                   THEN [repo |-> [popped EXCEPT
                                     !.branches = DictSet(@, last_operation[2],
                                                          last_operation[3]),
                                     !.history = Append(@, last_operation)],
                         outcome |-> Ok]
                   ELSE [repo |-> popped,
                         outcome |-> Raised("IndexError", "Repository.redo")]
              [] OTHER -> [repo |-> popped, outcome |-> Ok]
    ELSE [repo |-> r, outcome |-> Ok]

RepoRedo ==
    /\ repo' = repo_redo(repo).repo
    /\ outcome' = repo_redo(repo).outcome
    /\ UNCHANGED <<commitObjs, lists, branchObjs, ghost>>

\* ------------------------------------------------------------------ Next
NextBranch ==
    \/ NewBranch("main")
    \/ \E b \in 1..Len(branchObjs), name \in CommitNames, description \in Descriptions :
          AddCommit(b, name, description, <<"a.py">>)
    \/ \E b \in 1..Len(branchObjs) : BranchUndo(b)
    \/ \E b \in 1..Len(branchObjs) : BranchRedo(b)
    \/ \E b \in 1..Len(branchObjs), last_commit \in 0..Len(commitObjs) :
          Clone(b, last_commit)
    \/ \E a \in 1..Len(branchObjs), b \in 1..Len(branchObjs) : Join(a, b)

SpecBranch == Init /\ [][NextBranch]_vars

\* calls that build branches whose commits touch the same or different files,
\* and join them
NextJoin ==
    \/ NewBranch("main")
    \/ \E b \in 1..Len(branchObjs), name \in CommitNames,
          description \in Descriptions, file_list \in FileLists :
          AddCommit(b, name, description, file_list)
    \/ \E a \in 1..Len(branchObjs), b \in 1..Len(branchObjs) : Join(a, b)

SpecJoin == Init /\ [][NextJoin]_vars

\* clone, called directly and through create_branch and clone_branch, on
\* branches that add_commit and undo have shaped
NextClone ==
    \/ NewBranch("main")
    \/ \E b \in 1..Len(branchObjs), name \in CommitNames, description \in Descriptions :
          /\ Len(commitObjs) < MaxRepoCommits
          /\ AddCommit(b, name, description, <<"a.py">>)
    \/ \E b \in 1..Len(branchObjs) : BranchUndo(b)
    \/ \E b \in 1..Len(branchObjs), last_commit \in 0..Len(commitObjs) :
          Clone(b, last_commit)
    \/ \E new_branch_name \in BranchNames, base_branch_name \in BranchNames \cup {NoName},
          last_commit \in 0..Len(commitObjs) :
          CreateBranch(new_branch_name, base_branch_name, last_commit)
    \/ \E name \in BranchNames, new_name \in BranchNames,
          last_commit \in 0..Len(commitObjs) :
          CloneBranch(name, new_name, last_commit)

SpecClone == Init /\ [][NextClone]_vars

\* calls on a repository and on the branches it holds or the caller builds;
\* last_commit is omitted here, SpecClone covers it; the caller commits to the
\* branches it built before it first uses the repository, and Branch.undo and
\* Branch.redo are called on empty logs only, SpecBranch covers the rest
NextRepo ==
    \/ \E name \in BranchNames : NewBranch(name)
    \/ \E b \in 1..Len(branchObjs), name \in CommitNames, description \in Descriptions :
          /\ Len(commitObjs) < MaxRepoCommits
          /\ repo = ConcreteRepository("repo")
          /\ AddCommit(b, name, description, <<"a.py">>)
    \/ \E new_branch_name \in BranchNames, base_branch_name \in BranchNames \cup {NoName} :
          CreateBranch(new_branch_name, base_branch_name, NoCommit)
    \/ \E name \in BranchNames : RemoveBranch(name)
    \/ \E name \in BranchNames, new_name \in BranchNames :
          CloneBranch(name, new_name, NoCommit)
    \/ \E new_branch \in 1..Len(branchObjs) : AddBranch(new_branch)
    \/ RepoUndo
    \/ RepoRedo
    \/ \E b \in 1..Len(branchObjs) :
          branchObjs[b].undo_history = <<>> /\ BranchUndo(b)
    \/ \E b \in 1..Len(branchObjs) :
          branchObjs[b].redo_history = <<>> /\ BranchRedo(b)

SpecRepo == Init /\ [][NextRepo]_vars

\* ------------------------------------------------------------------ properties
Branches == 1..Len(branchObjs)

\* recorded calls of one kind
Count(calls, kind) == Cardinality({i \in 1..Len(calls) : calls[i][1] = kind})

\* the commits the recorded calls carry, in order
Payloads(calls) == [i \in 1..Len(calls) |-> calls[i][2]]

AddsOnly(calls) == \A i \in 1..Len(calls) : calls[i][1] = "add_commit"

\* the last two recorded calls on b are an undo and then an add_commit
UndoThenAdd(b) ==
    LET calls == ghost[b].calls
        n == Len(calls)
    IN n >= 2 /\ calls[n - 1][1] = "undo" /\ calls[n][1] = "add_commit"

\* file paths touched by the commits of a branch
FilesOf(b) == UNION {Elems(commitObjs[c].files_list) : c \in Elems(get_commits_list(b))}

Conflict(a, b) == FilesOf(a) \cap FilesOf(b) # {}

\* C1: on a branch created empty the number of commits is the number of
\* add_commit calls, minus the undo calls that found undo_history non-empty,
\* plus the redo calls that found redo_history non-empty.
C1_LengthCountsCalls ==
    \A b \in Branches :
       ghost[b].created_with = <<>> =>
          Len(get_commits_list(b)) =
             Count(ghost[b].calls, "add_commit") - Count(ghost[b].calls, "undo")
                + Count(ghost[b].calls, "redo")

C1_Witness ==
    \E b \in Branches :
       /\ ghost[b].cloned_from = 0
       /\ Count(ghost[b].calls, "add_commit") >= 2
       /\ Count(ghost[b].calls, "undo") >= 1
       /\ Count(ghost[b].calls, "redo") >= 1
       /\ Len(get_commits_list(b)) = 2

\* C2: on a branch created empty the commits stand in the order of the
\* add_commit calls that created them (commit references are allocated in
\* call order, so the list is increasing).
C2_CommitsInCallOrder ==
    \A b \in Branches :
       ghost[b].created_with = <<>> =>
          \A i, j \in 1..Len(get_commits_list(b)) :
             i < j => get_commits_list(b)[i] < get_commits_list(b)[j]

\* C3: after N >= 1 add_commit calls and nothing else the branch holds the N
\* commits after those it was created with; undo then removes exactly the
\* N-th and keeps the first N-1 in order; redo right after puts the same
\* Commit object back as the last element.
C3_UndoRedoLastCommit ==
    \A b \in Branches :
       LET calls == ghost[b].calls
           n == Len(calls)
       IN /\ (n >= 1 /\ AddsOnly(calls)) =>
                get_commits_list(b) = ghost[b].created_with \o Payloads(calls)
          /\ (n >= 2 /\ AddsOnly(Front(calls)) /\ calls[n][1] = "undo") =>
                get_commits_list(b) =
                   ghost[b].created_with \o Payloads(SubSeq(calls, 1, n - 2))
          /\ (n >= 3 /\ AddsOnly(SubSeq(calls, 1, n - 2))
                /\ calls[n - 1][1] = "undo" /\ calls[n][1] = "redo") =>
                get_commits_list(b) =
                   ghost[b].created_with \o Payloads(SubSeq(calls, 1, n - 2))

C3_Witness ==
    \E b \in Branches :
       LET calls == ghost[b].calls
           n == Len(calls)
       IN /\ n >= 4 /\ AddsOnly(SubSeq(calls, 1, n - 2))
          /\ calls[n - 1][1] = "undo" /\ calls[n][1] = "redo"
          /\ Last(get_commits_list(b)) = calls[n - 2][2]

\* C4: a redo issued after an add_commit that followed an undo leaves the
\* commit sequence unchanged (add #1, add #2, undo, add #3, redo: #2 does not
\* reappear).
C4_RedoAfterAddChangesNothing ==
    [][\A b \in Branches :
          (UndoThenAdd(b) /\ BranchRedo(b)) =>
             get_commits_list(b)' = get_commits_list(b)]_vars

\* C5: add_commit leaves redo_history as it was; after an undo followed by an
\* add_commit the undone commit's entry is still the top of redo_history, and
\* a redo then appends that commit to the commit sequence and pushes its
\* entry back onto undo_history.
C5_StaleRedoIsApplied ==
    [][\A b \in Branches :
          LET undone == ghost[b].calls[Len(ghost[b].calls) - 1][2] IN
          /\ (\E name \in CommitNames, description \in Descriptions,
                 file_list \in FileLists : AddCommit(b, name, description, file_list))
                => branchObjs'[b].redo_history = branchObjs[b].redo_history
          /\ UndoThenAdd(b) =>
                /\ branchObjs[b].redo_history # <<>>
                /\ Last(branchObjs[b].redo_history) = <<"add_commit", undone>>
          /\ (UndoThenAdd(b) /\ BranchRedo(b)) =>
                /\ get_commits_list(b)' = Append(get_commits_list(b), undone)
                /\ branchObjs'[b].undo_history =
                      Append(branchObjs[b].undo_history, <<"add_commit", undone>>)]_vars

C5_Witness ==
    \E b \in Branches :
       LET calls == ghost[b].calls
           n == Len(calls)
       IN /\ n >= 3
          /\ calls[n - 2][1] = "undo" /\ calls[n - 1][1] = "add_commit"
          /\ calls[n][1] = "redo"
          /\ Last(get_commits_list(b)) = calls[n - 2][2]
          /\ get_commits_list(b)[Len(get_commits_list(b)) - 1] = calls[n - 1][2]

\* y was made by x.clone() with no last_commit
FullCloneOf(y, x) == ghost[y].cloned_from = x /\ ghost[y].last_commit = NoCommit

\* C6: clone() with no last_commit returns a branch with the source's commit
\* sequence, and from then on a call that changes one of the two leaves the
\* commit sequence of the other as it was.
C6_CloneIsIndependent ==
    [][\A x \in Branches :
          /\ Clone(x, NoCommit) =>
                lists'[Last(branchObjs').commits] = get_commits_list(x)
          /\ \A y \in Branches :
                ((FullCloneOf(y, x) \/ FullCloneOf(x, y))
                   /\ ghost'[x].calls # ghost[x].calls) =>
                   get_commits_list(y)' = get_commits_list(y)]_vars

C6_Witness ==
    \E x, y \in Branches :
       /\ FullCloneOf(y, x)
       /\ ghost[y].created_with # <<>>
       /\ ghost[y].calls # <<>>
       /\ get_commits_list(x) # ghost[y].created_with
       /\ Count(ghost[x].calls, "undo") >= 1

\* C7: clone(last_commit = the k-th commit) returns a branch holding exactly
\* the first k commits of the source, in order, and leaves the source's
\* commits and logs unchanged.
C7_ClonePrefix ==
    [][\A x \in Branches :
          \A k \in 1..Len(get_commits_list(x)) :
             Clone(x, get_commits_list(x)[k]) =>
                /\ outcome' = Ok
                /\ Len(branchObjs') = Len(branchObjs) + 1
                /\ lists'[Last(branchObjs').commits] = SubSeq(get_commits_list(x), 1, k)
                /\ get_commits_list(x)' = get_commits_list(x)
                /\ branchObjs'[x] = branchObjs[x]]_vars

C7_Witness ==
    \E x, y \in Branches :
       /\ ghost[y].cloned_from = x
       /\ ghost[y].last_commit # NoCommit
       /\ ghost[y].calls = <<>>
       /\ Len(get_commits_list(y)) = 1
       /\ AddsOnly(ghost[x].calls)
       /\ Len(get_commits_list(x)) = 2
       /\ get_commits_list(y) = SubSeq(get_commits_list(x), 1, 1)

\* C8: clone(last_commit = C) with C not in the source's commit sequence ends
\* in an exception and allocates no branch; inside create_branch and
\* clone_branch the repository's branch map and logs stay as they were.
C8_CloneOfMissingCommitRaises ==
    [][\A c \in 1..Len(commitObjs) :
          /\ \A b \in Branches :
                (c \notin Elems(get_commits_list(b)) /\ Clone(b, c)) =>
                   /\ outcome'.raised # "None"
                   /\ UNCHANGED <<branchObjs, lists, repo>>
          /\ \A base \in DOMAIN repo.branches :
                c \notin Elems(get_commits_list(repo.branches[base])) =>
                   /\ (\E new \in BranchNames : CreateBranch(new, base, c)) =>
                         /\ outcome'.raised # "None"
                         /\ UNCHANGED <<branchObjs, lists, repo>>
                   /\ (\E new \in BranchNames : CloneBranch(base, new, c)) =>
                         /\ outcome'.raised # "None"
                         /\ UNCHANGED <<branchObjs, lists, repo>>]_vars

C8_Witness ==
    /\ outcome = Raised("ValueError", "create_branch")
    /\ DOMAIN repo.branches # {}
    /\ repo.history # <<>>

\* C9: A.join(B) with a file path touched by commits of both ends in
\* NotJoinableBranchesError and changes neither branch.
C9_JoinConflictIsRefused ==
    [][\A a, b \in Branches :
          (a # b /\ Conflict(a, b) /\ Join(a, b)) =>
             /\ outcome'.raised = "NotJoinableBranchesError"
             /\ UNCHANGED <<commitObjs, lists, branchObjs>>]_vars

\* C10: A.join(B) with no file path touched by commits of both returns; B's
\* commit sequence becomes its old one followed by one new commit per commit
\* of A, with the same name, description and files, in A's order; A's commits
\* and logs are unchanged.
C10_JoinAppendsCopies ==
    [][\A a, b \in Branches :
          (a # b /\ ~Conflict(a, b) /\ Join(a, b)) =>
             LET old == get_commits_list(b)
                 src == get_commits_list(a)
                 new == get_commits_list(b)'
             IN /\ outcome' = Ok
                /\ Len(new) = Len(old) + Len(src)
                /\ SubSeq(new, 1, Len(old)) = old
                /\ \A i \in 1..Len(src) :
                      /\ new[Len(old) + i] > Len(commitObjs)
                      /\ commitObjs'[new[Len(old) + i]].name = commitObjs[src[i]].name
                      /\ commitObjs'[new[Len(old) + i]].description =
                            commitObjs[src[i]].description
                      /\ commitObjs'[new[Len(old) + i]].files_list =
                            commitObjs[src[i]].files_list
                /\ get_commits_list(a)' = src
                /\ branchObjs'[a] = branchObjs[a]]_vars

\* ------------------------------------------------------------------ Repository properties
\* the newest entry of the repository's undo log is of this kind
TopIs(log, kind) == log # <<>> /\ Last(log)[1] = kind

\* this step is a call that stored a branch under new_name and logged it
Added(new_name) ==
    /\ \/ \E base_branch_name \in BranchNames \cup {NoName} :
             CreateBranch(new_name, base_branch_name, NoCommit)
       \/ \E name \in BranchNames : CloneBranch(name, new_name, NoCommit)
       \/ \E b \in Branches : branchObjs[b].name = new_name /\ AddBranch(b)
    /\ repo'.history # repo.history
    /\ new_name \in DOMAIN repo'.branches

\* C11: Repository.undo() called when the newest logged operation is
\* remove_branch(name) and name is not in the branch map completes without an
\* error; a "main" that was in the map is still in it.
C11_UndoOfRemoveCompletes ==
    [][(/\ TopIs(repo.history, "remove_branch")
        /\ Last(repo.history)[2] \notin DOMAIN repo.branches
        /\ RepoUndo) =>
           /\ outcome' = Ok
           /\ "main" \in DOMAIN repo.branches => "main" \in DOMAIN repo'.branches]_vars

\* C12: add_branch(b), undo(), redo() takes b's name from present in the
\* branch map to absent to present again, and after the redo the entry under
\* b's name is the branch object b (whose commits no Repository call touches).
C12_AddUndoRedoRestoresBranch ==
    [][\A b \in Branches :
          AddBranch(b) =>
             LET name == branchObjs[b].name
                 undone == repo_undo(repo')
                 redone == repo_redo(undone.repo)
             IN /\ name \in DOMAIN repo'.branches
                /\ undone.outcome = Ok
                /\ name \notin DOMAIN undone.repo.branches
                /\ redone.outcome = Ok
                /\ name \in DOMAIN redone.repo.branches
                /\ redone.repo.branches[name] = b]_vars

\* C13: with branch #1 in the map under one name, once branch #2 has been
\* added under another name (by create_branch, clone_branch or add_branch), one
\* Repository.undo() makes branch #2 absent and leaves branch #1 present.
C13_UndoRemovesNewestBranch ==
    [][\A first, second \in BranchNames :
          (/\ first # second
           /\ first \in DOMAIN repo.branches
           /\ Added(second)) =>
             LET undone == repo_undo(repo') IN
             /\ undone.outcome = Ok
             /\ second \notin DOMAIN undone.repo.branches
             /\ first \in DOMAIN undone.repo.branches]_vars

\* a call that returned and left the map, both repository logs and every
\* branch's commits and logs as they were
Quiet ==
    /\ outcome' = Ok
    /\ UNCHANGED <<repo, commitObjs, lists, branchObjs>>

\* this step stored a fresh branch under new_name and logged it
StoredFresh(new_name) ==
    /\ outcome' = Ok
    /\ new_name \in DOMAIN repo'.branches
    /\ repo'.branches[new_name] > Len(branchObjs)
    /\ lists'[branchObjs'[repo'.branches[new_name]].commits] = <<>>
    /\ repo'.history = Append(repo.history, <<"create_branch", new_name>>)

\* C14 as stated: create_branch with any base name that is not a key of the
\* map, the empty one '' included (NoName, which `if base_branch_name:` treats
\* like None), remove_branch and clone_branch with a name that is not a key,
\* and undo and redo of the repository or of a branch on an empty log raise
\* nothing and leave the map, the repository's logs and every branch's commits
\* and logs as they were.
C14_SilentNoOpsAnyBase ==
    [][\/ Quiet
       \/ /\ \A name \in (BranchNames \cup {NoName}) \ DOMAIN repo.branches :
                \A new_name \in BranchNames :
                   ~CreateBranch(new_name, name, NoCommit)
          /\ \A name \in BranchNames \ DOMAIN repo.branches :
                /\ \A new_name \in BranchNames :
                      ~CloneBranch(name, new_name, NoCommit)
                /\ ~RemoveBranch(name)
          /\ ~(repo.history = <<>> /\ RepoUndo)
          /\ ~(repo.redo_history = <<>> /\ RepoRedo)
          /\ \A b \in Branches :
                /\ ~(branchObjs[b].undo_history = <<>> /\ BranchUndo(b))
                /\ ~(branchObjs[b].redo_history = <<>> /\ BranchRedo(b))]_vars

\* C14 amended: create_branch with a non-empty base name that is not a key of
\* the map, remove_branch and clone_branch with a name that is not a key, and
\* undo and redo of the repository or of a branch on an empty log raise
\* nothing and leave the map, the repository's logs and every branch's commits
\* and logs as they were: a step that is not Quiet is none of these calls.
\* create_branch with the empty base name '' is not one of them: it stores a
\* fresh empty branch under new_name and logs it, as with no base name.
C14_SilentNoOps ==
    [][/\ \/ Quiet
          \/ /\ \A name \in BranchNames \ DOMAIN repo.branches :
                   /\ \A new_name \in BranchNames :
                         /\ ~CreateBranch(new_name, name, NoCommit)
                         /\ ~CloneBranch(name, new_name, NoCommit)
                   /\ ~RemoveBranch(name)
             /\ ~(repo.history = <<>> /\ RepoUndo)
             /\ ~(repo.redo_history = <<>> /\ RepoRedo)
             /\ \A b \in Branches :
                   /\ ~(branchObjs[b].undo_history = <<>> /\ BranchUndo(b))
                   /\ ~(branchObjs[b].redo_history = <<>> /\ BranchRedo(b))
       /\ \A new_name \in BranchNames :
             CreateBranch(new_name, NoName, NoCommit) => StoredFresh(new_name)]_vars

\* every no-op has its case: a name is missing from a map that holds a branch
\* with commits and empty logs, both repository logs are empty, and the call
\* before returned
C14_Witness ==
    /\ outcome = Ok
    /\ BranchNames \ DOMAIN repo.branches # {}
    /\ repo.history = <<>>
    /\ repo.redo_history = <<>>
    /\ \E n \in DOMAIN repo.branches :
          /\ get_commits_list(repo.branches[n]) # <<>>
          /\ branchObjs[repo.branches[n]].undo_history = <<>>
          /\ branchObjs[repo.branches[n]].redo_history = <<>>

\* C15: Repository.undo() with a create_branch entry newest on history removes
\* that entry, leaves the map as it was (the created branch stays) and pushes
\* nothing onto redo_history, which is all a following redo() applies.
C15_UndoDiscardsCreateBranch ==
    [][(TopIs(repo.history, "create_branch") /\ RepoUndo) =>
          /\ outcome' = Ok
          /\ repo'.history = Front(repo.history)
          /\ repo'.branches = repo.branches
          /\ repo'.redo_history = repo.redo_history]_vars

\* the undo has emptied history; every branch ever built is still stored under
\* its name and nothing waits on redo_history
C15_Witness ==
    /\ outcome = Ok
    /\ repo.history = <<>>
    /\ repo.redo_history = <<>>
    /\ Branches # {}
    /\ \A b \in Branches :
          /\ branchObjs[b].name \in DOMAIN repo.branches
          /\ repo.branches[branchObjs[b].name] = b

\* C16: Repository.undo() with clone_branch(name, new_name) newest on history,
\* name # new_name and both in the map, deletes the entry of the source `name`,
\* keeps the clone `new_name` and pushes the log entry onto redo_history.
C16_UndoOfCloneDeletesSource ==
    [][\A name, new_name \in DOMAIN repo.branches :
          (/\ name # new_name
           /\ repo.history # <<>>
           /\ Last(repo.history) = <<"clone_branch", name, new_name>>
           /\ RepoUndo) =>
             /\ outcome' = Ok
             /\ repo'.branches = DictDel(repo.branches, name)
             /\ new_name \in DOMAIN repo'.branches
             /\ repo'.history = Front(repo.history)
             /\ repo'.redo_history = Append(repo.redo_history, Last(repo.history))]_vars

\* the undone clone_branch entry is newest on redo_history, its source is gone
\* and its clone is still stored
C16_Witness ==
    /\ outcome = Ok
    /\ TopIs(repo.redo_history, "clone_branch")
    /\ Last(repo.redo_history)[2] # Last(repo.redo_history)[3]
    /\ Last(repo.redo_history)[2] \notin DOMAIN repo.branches
    /\ Last(repo.redo_history)[3] \in DOMAIN repo.branches

\* the newest entry of `from` has moved onto `to`
Moved(from, to) ==
    /\ repo'[to] = Append(repo[to], Last(repo[from]))
    /\ repo'[from] = Front(repo[from])

\* C17 as stated: Repository.redo() of a remove_branch or clone_branch entry
\* only moves the entry from redo_history back onto history, completes without
\* an error and leaves the map as it was.
C17_RedoOnlyMovesEntry ==
    [][(/\ \/ TopIs(repo.redo_history, "remove_branch")
           \/ TopIs(repo.redo_history, "clone_branch")
        /\ RepoRedo) =>
           /\ outcome' = Ok
           /\ Moved("redo_history", "history")
           /\ repo'.branches = repo.branches]_vars

\* C17 amended: redo() of a clone_branch entry moves the entry back onto
\* history and leaves the map as it was; redo() of remove_branch(name) deletes
\* name from the map and moves the entry when name is a key, and otherwise
\* raises KeyError with the entry gone from redo_history, history and the map
\* as they were.
C17_RedoOfRemoveDeletesAgain ==
    [][RepoRedo =>
          /\ TopIs(repo.redo_history, "clone_branch") =>
                /\ outcome' = Ok
                /\ Moved("redo_history", "history")
                /\ repo'.branches = repo.branches
          /\ TopIs(repo.redo_history, "remove_branch") =>
                LET name == Last(repo.redo_history)[2] IN
                IF name \in DOMAIN repo.branches
                THEN /\ outcome' = Ok
                     /\ Moved("redo_history", "history")
                     /\ repo'.branches = DictDel(repo.branches, name)
                ELSE /\ outcome' = Raised("KeyError", "Repository.redo")
                     /\ repo'.redo_history = Front(repo.redo_history)
                     /\ repo'.history = repo.history
                     /\ repo'.branches = repo.branches]_vars

\* a redone clone_branch entry is back on history with nothing rebuilt: its
\* source is still missing from the map
C17_Witness ==
    /\ outcome = Ok
    /\ TopIs(repo.history, "clone_branch")
    /\ Last(repo.history)[2] \notin DOMAIN repo.branches
    /\ Last(repo.history)[3] \in DOMAIN repo.branches
    /\ repo.redo_history = <<>>

\* every branch stored in the map reports the key it is stored under
NameIsKey ==
    \A n \in DOMAIN repo.branches : branchObjs[repo.branches[n]].name = n

\* C18: after every call every branch stored in the map has a name equal to
\* its key, so a branch made by create_branch or clone_branch from a base
\* reports new_name; no call renames a branch that existed before it, so the
\* base keeps its own name.
C18_NameEqualsKey ==
    [][/\ NameIsKey'
       /\ \A b \in Branches : branchObjs'[b].name = branchObjs[b].name]_vars

\* "feature" holds a clone of the branch stored under "main"
C18_Witness ==
    /\ {"main", "feature"} \subseteq DOMAIN repo.branches
    /\ ghost[repo.branches["feature"]].cloned_from = repo.branches["main"]
    /\ branchObjs[repo.branches["feature"]].name = "feature"
    /\ branchObjs[repo.branches["main"]].name = "main"

\* ------------------------------------------------------------------ Branch invariant
NoDuplicates(seq) == \A i, j \in 1..Len(seq) : seq[i] = seq[j] => i = j

\* C19: the commit sequence of a branch is the sequence it was created with
\* (empty for a fresh branch, the copied prefix for a clone) followed by the
\* commits of undo_history in log order; no commit is in the sequence twice,
\* none is on both logs, and none on redo_history is in the sequence. The
\* inherited prefix is therefore never shortened by undo.
C19_CommitsFollowUndoLog ==
    \A b \in Branches :
       LET commits == get_commits_list(b)
           undone == Elems(Payloads(branchObjs[b].redo_history))
           logged == Payloads(branchObjs[b].undo_history)
       IN /\ commits = ghost[b].created_with \o logged
          /\ NoDuplicates(commits)
          /\ Elems(logged) \cap undone = {}
          /\ Elems(commits) \cap undone = {}

\* a clone that inherited commits has added one of its own and undone it
C19_Witness ==
    \E b \in Branches :
       /\ ghost[b].cloned_from # 0
       /\ ghost[b].created_with # <<>>
       /\ branchObjs[b].redo_history # <<>>
       /\ get_commits_list(b) = ghost[b].created_with

\* ------------------------------------------------------------------ Repository atomicity
\* C20: a Repository.undo() or Repository.redo() that ends in an error leaves
\* the map, history and redo_history as they were before the call.
C20_FailedUndoRedoChangesNothing ==
    [][((RepoUndo \/ RepoRedo) /\ outcome'.raised # "None") =>
          /\ repo'.branches = repo.branches
          /\ repo'.history = repo.history
          /\ repo'.redo_history = repo.redo_history]_vars

====
